---- MODULE Spec2Model ----
(***************************************************************************)
(* Flag containers of byte-flags: BaseFlags and its three width variants   *)
(* (ByteFlags, ShortFlags, LongFlags), the standalone 8-bit ByteFlags that *)
(* preceded the BaseFlags refactoring, and the first ByteFlags release.    *)
(*                                                                         *)
(* A JavaScript number n is kept as two 16-bit limbs and a half flag,      *)
(*     n = hi * 2^16 + lo + (IF half THEN 1/2 ELSE 0),  0 <= lo < 2^16,    *)
(* so that 0xffffffff, 2^32 and the signed results of the 32-bit bitwise   *)
(* operators are all representable.                                        *)
(*                                                                         *)
(* A flag name is a JavaScript value [t, s]: its typeof and its characters.*)
(***************************************************************************)
EXTENDS Integers, Sequences, FiniteSets, TLC

\* ------------------------------------------------------------ bounds
\* Operations address the registered names at index 0 .. OpWidth-1, the name
\* at the last index, and one name that is not registered.
OpWidth == 2
\* Longest argument list of toggleFlags / all / anyOf / noneOf.
MaxArgs == 2

\* ------------------------------------------------------------ numbers
Limb == 2 ^ 16
HalfLimb == 2 ^ 15

Num(hi, lo) == [hi |-> hi, lo |-> lo, half |-> FALSE]
Zero == Num(0, 0)

\* Number.isInteger(v)
IsInteger(v) == ~v.half

\* a < b on numbers (halves break ties)
Less(a, b) ==
    \/ a.hi < b.hi
    \/ a.hi = b.hi /\ a.lo < b.lo
    \/ a.hi = b.hi /\ a.lo = b.lo /\ ~a.half /\ b.half

\* ToInt32 of an integral number: wrap modulo 2^32 into [-2^31, 2^31 - 1]
ToInt32(n) == Num(((n.hi + HalfLimb) % Limb) - HalfLimb, n.lo)

\* the unsigned 16-bit pattern of the high limb of an int32
U16(h) == h % Limb
\* the signed reading of a 16-bit pattern
S16(u) == IF u >= HalfLimb THEN u - Limb ELSE u

\* bitwise operators on 16-bit patterns (0 .. 2^16 - 1), bit by bit from
\* the low end
RECURSIVE And16(_, _)
And16(x, y) ==
    IF x = 0 \/ y = 0 THEN 0
    ELSE (x % 2) * (y % 2) + 2 * And16(x \div 2, y \div 2)

RECURSIVE Or16(_, _)
Or16(x, y) ==
    IF x = 0 THEN y
    ELSE IF y = 0 THEN x
    ELSE (IF x % 2 = 1 \/ y % 2 = 1 THEN 1 ELSE 0) + 2 * Or16(x \div 2, y \div 2)

RECURSIVE Xor16(_, _)
Xor16(x, y) ==
    IF x = 0 THEN y
    ELSE IF y = 0 THEN x
    ELSE ((x + y) % 2) + 2 * Xor16(x \div 2, y \div 2)

\* a & b, a | b, a ^ b: both operands through ToInt32, the result an int32
BitAnd(a, b) ==
    LET x == ToInt32(a)
        y == ToInt32(b)
    IN  Num(S16(And16(U16(x.hi), U16(y.hi))), And16(x.lo, y.lo))

BitOr(a, b) ==
    LET x == ToInt32(a)
        y == ToInt32(b)
    IN  Num(S16(Or16(U16(x.hi), U16(y.hi))), Or16(x.lo, y.lo))

BitXor(a, b) ==
    LET x == ToInt32(a)
        y == ToInt32(b)
    IN  Num(S16(Xor16(U16(x.hi), U16(y.hi))), Xor16(x.lo, y.lo))

\* ~a = -a - 1 on int32
BitNot(a) ==
    LET x == ToInt32(a)
    IN  Num(-x.hi - 1, (Limb - 1) - x.lo)

\* 1 << position: the shift count is taken modulo 32, the result is an int32
\* (1 << 31 is -2^31)
ShiftOne(position) ==
    LET p == position % 32
    IN  IF p < 16 THEN Num(0, 2 ^ p) ELSE Num(S16(2 ^ (p - 16)), 0)

\* ------------------------------------------------------------ names
Str(s) == [t |-> "string", s |-> s]
NotAString == [t |-> "number", s |-> <<"7">>]

DigitChars == <<"0", "1", "2", "3", "4", "5", "6", "7", "8", "9">>

RECURSIVE Decimal(_)
Decimal(i) ==
    IF i < 10 THEN <<DigitChars[i + 1]>>
    ELSE Decimal(i \div 10) \o <<DigitChars[(i % 10) + 1]>>

\* "f0", "f1", ... as the tests name their flags
F(i) == Str(<<"f">> \o Decimal(i))

WhiteSpace == {" ", "\t", "\n"}

RECURSIVE TrimStart(_)
TrimStart(s) ==
    IF s # <<>> /\ Head(s) \in WhiteSpace THEN TrimStart(Tail(s)) ELSE s

RECURSIVE TrimEnd(_)
TrimEnd(s) ==
    IF s # <<>> /\ s[Len(s)] \in WhiteSpace
    THEN TrimEnd(SubSeq(s, 1, Len(s) - 1)) ELSE s

\* String.prototype.trim
Trim(s) == TrimEnd(TrimStart(s))

\* ------------------------------------------------------------ variants
\* "ByteFlagsV1" is the first ByteFlags (no BaseFlags, eight methods),
\* "ByteFlagsStandalone" the full standalone ByteFlags, the other three extend
\* BaseFlags.
Derived == {"ByteFlags", "ShortFlags", "LongFlags"}
Impls == {"ByteFlagsV1", "ByteFlagsStandalone"} \cup Derived

\* ByteFlags._MAX_FLAGS, ShortFlags._MAX_FLAGS, LongFlags._MAX_FLAGS and the
\* module constant MAX_FLAGS of the standalone classes
StaticMaxFlags(impl) ==
    CASE impl = "ShortFlags" -> 16
      [] impl = "LongFlags" -> 32
      [] OTHER -> 8

\* _MAX_VALUE: 0xff, 0xffff, 0xffffffff (MAX_BYTE_VALUE in the standalone classes)
StaticMaxValue(impl) ==
    CASE impl = "ShortFlags" -> Num(0, 65535)
      [] impl = "LongFlags" -> Num(65535, 65535)
      [] OTHER -> Num(0, 255)

\* Members of the first ByteFlags a caller reaches ("fromValue" and "toValue"
\* stand for fromByte and toByte, "property" for the accessors).
V1Methods ==
    {"hasFlag", "getFlag", "setFlag", "toggleFlag", "fromValue", "toValue",
     "toObject", "getFlags", "property"}

\* Members the later classes add: BaseFlags with its subclasses and the full
\* standalone ByteFlags.
LaterMethods ==
    {"setFlags", "toggleFlags", "count", "any", "none", "toJSON", "fromJSON",
     "all", "anyOf", "noneOf", "getFlagNames", "iterator", "toString"}

HasMethod(impl, m) ==
    m \in V1Methods \/ (impl # "ByteFlagsV1" /\ m \in LaterMethods)

\* ------------------------------------------------------------ the instance
EmptyMap == [k \in {} |-> 0]

\* Map.prototype.set / Object.defineProperty on a key
MapSet(m, k, v) == [x \in DOMAIN m \cup {k} |-> IF x = k THEN v ELSE m[x]]

\* Fields with value initialised to 1 instead of 0
Fields_ValueOne(impl) ==
    [impl        |-> impl,
     value       |-> Num(0, 1),
     nextIndex   |-> 0,
     flagList    |-> <<>>,
     flagIndices |-> EmptyMap,
     accessors   |-> EmptyMap,
     MAX_FLAGS   |-> IF impl \in Derived THEN {} ELSE {StaticMaxFlags(impl)},
     MAX_VALUE   |-> IF impl \in Derived THEN {} ELSE {StaticMaxValue(impl)}]

\* The instance right after the field initialisers of the class that declares
\* value, nextIndex, flagList and flagIndices. MAX_FLAGS and MAX_VALUE are sets:
\* {} while the property is still undefined (an abstract field of BaseFlags, set
\* by the subclass only after super() returns), {m} once it is m. The standalone
\* classes read module constants, which are always defined.
Fields(impl) ==
    [impl        |-> impl,
     value       |-> Zero,
     nextIndex   |-> 0,
     flagList    |-> <<>>,
     flagIndices |-> EmptyMap,
     accessors   |-> EmptyMap,
     MAX_FLAGS   |-> IF impl \in Derived THEN {} ELSE {StaticMaxFlags(impl)},
     MAX_VALUE   |-> IF impl \in Derived THEN {} ELSE {StaticMaxValue(impl)}]

\* what a constructor that threw leaves: no instance of class impl
NoFields(impl) == [Fields(impl) EXCEPT !.MAX_FLAGS = {}, !.MAX_VALUE = {}]

Ok(self) == [self |-> self, err |-> "none"]
Throw(self, err) == [self |-> self, err |-> err]

\* Array.prototype.includes
Includes(list, x) == \E i \in 1..Len(list) : list[i] = x

\* addFlag that puts the new name in front of flagList (unshift for push)
addFlag_Unshift(self, name) ==
    IF \E m \in self.MAX_FLAGS : self.nextIndex >= m
    THEN Throw(self, "CannotAddMore")
    ELSE IF name.t # "string" \/ Trim(name.s) = <<>>
    THEN Throw(self, "NonEmptyString")
    ELSE IF Includes(self.flagList, name)
    THEN Throw(self, "Duplicate")
    ELSE LET idx == self.nextIndex
         IN  Ok([self EXCEPT !.nextIndex = idx + 1,
                             !.flagList = <<name>> \o @,
                             !.flagIndices = MapSet(@, name, idx),
                             !.accessors = MapSet(@, name.s, idx)])

\* addFlag with const idx = ++this.nextIndex for this.nextIndex++
addFlag_PreIncrement(self, name) ==
    IF \E m \in self.MAX_FLAGS : self.nextIndex >= m
    THEN Throw(self, "CannotAddMore")
    ELSE IF name.t # "string" \/ Trim(name.s) = <<>>
    THEN Throw(self, "NonEmptyString")
    ELSE IF Includes(self.flagList, name)
    THEN Throw(self, "Duplicate")
    ELSE LET idx == self.nextIndex + 1
         IN  Ok([self EXCEPT !.nextIndex = idx,
                             !.flagList = Append(@, name),
                             !.flagIndices = MapSet(@, name, idx),
                             !.accessors = MapSet(@, name.s, idx)])

\* BaseFlags.addFlag (the full standalone ByteFlags.addFlag is the same code
\* with the module constant MAX_FLAGS for this.MAX_FLAGS). A comparison with
\* undefined is false.
addFlag(self, name) ==
    IF \E m \in self.MAX_FLAGS : self.nextIndex >= m
    THEN Throw(self, "CannotAddMore")
    ELSE IF name.t # "string" \/ Trim(name.s) = <<>>
    THEN Throw(self, "NonEmptyString")
    ELSE IF Includes(self.flagList, name)
    THEN Throw(self, "Duplicate")
    ELSE LET idx == self.nextIndex
         IN  Ok([self EXCEPT !.nextIndex = idx + 1,
                             !.flagList = Append(@, name),
                             !.flagIndices = MapSet(@, name, idx),
                             !.accessors = MapSet(@, name.s, idx)])

\* addFlag of the first ByteFlags: no check of the name itself
addFlagV1(self, name) ==
    IF \E m \in self.MAX_FLAGS : self.nextIndex >= m
    THEN Throw(self, "CannotAddMore")
    ELSE IF Includes(self.flagList, name)
    THEN Throw(self, "Duplicate")
    ELSE LET idx == self.nextIndex
         IN  Ok([self EXCEPT !.nextIndex = idx + 1,
                             !.flagList = Append(@, name),
                             !.flagIndices = MapSet(@, name, idx),
                             !.accessors = MapSet(@, name.s, idx)])

\* for (const name of flagNames) this.addFlag(name): stops at the first throw
RECURSIVE AddFlags(_, _)
AddFlags(r, flagNames) ==
    IF r.err # "none" \/ flagNames = <<>> THEN r
    ELSE AddFlags(IF r.self.impl = "ByteFlagsV1"
                  THEN addFlagV1(r.self, Head(flagNames))
                  ELSE addFlag(r.self, Head(flagNames)),
                  Tail(flagNames))

\* BaseFlags.constructor
BaseFlagsConstructor(impl, flagNames) ==
    IF Len(flagNames) = 0 THEN Throw(Fields(impl), "AtLeastOne")
    ELSE AddFlags(Ok(Fields(impl)), flagNames)

\* constructor of ByteFlags / ShortFlags / LongFlags: the length check, then
\* super(...), then the field initialisers MAX_FLAGS and MAX_VALUE
DerivedConstructor(impl, flagNames) ==
    IF Len(flagNames) > StaticMaxFlags(impl)
    THEN Throw(Fields(impl), "CannotHaveMore")
    ELSE LET r == BaseFlagsConstructor(impl, flagNames)
         IN  IF r.err # "none" THEN r
             ELSE Ok([r.self EXCEPT !.MAX_FLAGS = {StaticMaxFlags(impl)},
                                    !.MAX_VALUE = {StaticMaxValue(impl)}])

\* constructor of the full standalone ByteFlags
StandaloneConstructor(impl, flagNames) ==
    IF Len(flagNames) > StaticMaxFlags(impl)
    THEN Throw(Fields(impl), "CannotHaveMore")
    ELSE IF Len(flagNames) = 0
    THEN Throw(Fields(impl), "AtLeastOne")
    ELSE AddFlags(Ok(Fields(impl)), flagNames)

\* constructor of the first ByteFlags: no check for an empty list
V1Constructor(impl, flagNames) ==
    IF Len(flagNames) > StaticMaxFlags(impl)
    THEN Throw(Fields(impl), "CannotHaveMore")
    ELSE AddFlags(Ok(Fields(impl)), flagNames)

\* new ByteFlags(...) / createByteFlags(...) and the like
New(impl, flagNames) ==
    CASE impl \in Derived -> DerivedConstructor(impl, flagNames)
      [] impl = "ByteFlagsStandalone" -> StandaloneConstructor(impl, flagNames)
      [] OTHER -> V1Constructor(impl, flagNames)

\* ------------------------------------------------------------ bits
\* getBit testing the masked value with > 0 instead of !== 0
getBit_Positive(self, position) ==
    Less(Zero, BitAnd(self.value, ShiftOne(position)))

\* Boolean(this.value & (1 << position))
getBit(self, position) == BitAnd(self.value, ShiftOne(position)) # Zero

\* setBit whose clearing branch lost its ~: this.value &= 1 << position
setBit_NoComplement(self, position, v) ==
    IF v THEN [self EXCEPT !.value = BitOr(@, ShiftOne(position))]
    ELSE [self EXCEPT !.value = BitAnd(@, ShiftOne(position))]

\* setBit assigning the mask where it should merge it: this.value = 1 << position
setBit_Assign(self, position, v) ==
    IF v THEN [self EXCEPT !.value = ShiftOne(position)]
    ELSE [self EXCEPT !.value = BitAnd(@, BitNot(ShiftOne(position)))]

\* this.value |= 1 << position   /   this.value &= ~(1 << position)
setBit(self, position, v) ==
    IF v THEN [self EXCEPT !.value = BitOr(@, ShiftOne(position))]
    ELSE [self EXCEPT !.value = BitAnd(@, BitNot(ShiftOne(position)))]

\* ------------------------------------------------------------ single flags
hasFlag(self, name) == name \in DOMAIN self.flagIndices

getFlag(self, name) ==
    IF ~hasFlag(self, name) THEN [err |-> "DoesNotExist", ret |-> FALSE]
    ELSE [err |-> "none", ret |-> getBit(self, self.flagIndices[name])]

\* setFlag that skips a name that is not registered instead of throwing
setFlag_IgnoresUnknown(self, name, v) ==
    IF ~hasFlag(self, name) THEN Ok(self)
    ELSE Ok(setBit(self, self.flagIndices[name], v))

setFlag(self, name, v) ==
    IF ~hasFlag(self, name) THEN Throw(self, "DoesNotExist")
    ELSE Ok(setBit(self, self.flagIndices[name], v))

\* BaseFlags.toggleFlag: setBit(idx, !getBit(idx))
toggleFlag(self, name) ==
    IF ~hasFlag(self, name) THEN Throw(self, "DoesNotExist")
    ELSE LET idx == self.flagIndices[name]
         IN  Ok(setBit(self, idx, ~getBit(self, idx)))

\* toggleFlag of the standalone ByteFlags with |= for ^=
toggleFlagXor_Or(self, name) ==
    IF ~hasFlag(self, name) THEN Throw(self, "DoesNotExist")
    ELSE LET idx == self.flagIndices[name]
         IN  Ok([self EXCEPT !.value = BitOr(@, ShiftOne(idx))])

\* toggleFlag of the standalone classes: this.byte ^= 1 << idx
toggleFlagXor(self, name) ==
    IF ~hasFlag(self, name) THEN Throw(self, "DoesNotExist")
    ELSE LET idx == self.flagIndices[name]
         IN  Ok([self EXCEPT !.value = BitXor(@, ShiftOne(idx))])

\* this.toggleFlag(name) on the instance's own class
ToggleOne(self, name) ==
    IF self.impl \in Derived THEN toggleFlag(self, name)
    ELSE toggleFlagXor(self, name)

\* the setter reading this.nextIndex when called instead of the idx addFlag
\* captured
PropertySet_LateIndex(self, key, v) ==
    IF key \in DOMAIN self.accessors THEN setBit(self, self.nextIndex - 1, v)
    ELSE self

\* flags.name = v through the accessor defined by addFlag; a write to a
\* property that has no accessor creates a plain property and touches nothing
\* else
PropertySet(self, key, v) ==
    IF key \in DOMAIN self.accessors THEN setBit(self, self.accessors[key], v)
    ELSE self

\* flags.name through the accessor defined by addFlag
PropertyGet(self, key) == getBit(self, self.accessors[key])

\* ------------------------------------------------------------ bulk
\* setFlags without the hasFlag check before setFlag
RECURSIVE setFlags_Unchecked(_, _)
setFlags_Unchecked(self, flags) ==
    IF flags = <<>> THEN Ok(self)
    ELSE LET next == setFlag(self, Head(flags).k, Head(flags).v)
         IN  IF next.err # "none" THEN next
             ELSE setFlags_Unchecked(next.self, Tail(flags))

\* setFlags: flags is the sequence Object.entries(flags) of [k, v] pairs
RECURSIVE setFlags(_, _)
setFlags(self, flags) ==
    IF flags = <<>> THEN Ok(self)
    ELSE LET e == Head(flags)
             next == IF hasFlag(self, e.k) THEN setFlag(self, e.k, e.v)
                     ELSE Ok(self)
         IN  IF next.err # "none" THEN next
             ELSE setFlags(next.self, Tail(flags))

\* BaseFlags.toggleFlags: names that are not registered are skipped
RECURSIVE toggleFlags(_, _)
toggleFlags(self, names) ==
    IF names = <<>> THEN Ok(self)
    ELSE LET next == IF hasFlag(self, Head(names))
                     THEN toggleFlag(self, Head(names))
                     ELSE Ok(self)
         IN  IF next.err # "none" THEN next
             ELSE toggleFlags(next.self, Tail(names))

\* toggleFlags of the full standalone ByteFlags:
\* names.forEach((name) => this.toggleFlag(name)); a throw leaves the earlier
\* toggles in place
RECURSIVE toggleFlagsStandalone(_, _)
toggleFlagsStandalone(self, names) ==
    IF names = <<>> THEN Ok(self)
    ELSE LET next == toggleFlagXor(self, Head(names))
         IN  IF next.err # "none" THEN next
             ELSE toggleFlagsStandalone(next.self, Tail(names))

ToggleMany(self, names) ==
    IF self.impl \in Derived THEN toggleFlags(self, names)
    ELSE toggleFlagsStandalone(self, names)

\* ------------------------------------------------------------ queries
RECURSIVE CountFrom(_, _)
CountFrom(self, i) ==
    IF i >= self.nextIndex THEN 0
    ELSE (IF getBit(self, i) THEN 1 ELSE 0) + CountFrom(self, i + 1)

count(self) == CountFrom(self, 0)

\* any looking at the registered flags only
any_Registered(self) == count(self) > 0

any(self) == self.value # Zero

none(self) == self.value = Zero

\* flags.every((flag) => this.getFlag(flag)): stops at the first false
RECURSIVE all(_, _)
all(self, flags) ==
    IF flags = <<>> THEN [err |-> "none", ret |-> TRUE]
    ELSE LET g == getFlag(self, Head(flags))
         IN  IF g.err # "none" THEN g
             ELSE IF ~g.ret THEN [err |-> "none", ret |-> FALSE]
             ELSE all(self, Tail(flags))

\* flags.some((flag) => this.getFlag(flag)): stops at the first true
RECURSIVE anyOf(_, _)
anyOf(self, flags) ==
    IF flags = <<>> THEN [err |-> "none", ret |-> FALSE]
    ELSE LET g == getFlag(self, Head(flags))
         IN  IF g.err # "none" THEN g
             ELSE IF g.ret THEN [err |-> "none", ret |-> TRUE]
             ELSE anyOf(self, Tail(flags))

noneOf(self, flags) ==
    LET a == anyOf(self, flags)
    IN  IF a.err # "none" THEN a ELSE [err |-> "none", ret |-> ~a.ret]

\* ------------------------------------------------------------ serialization
toValue(self) == self.value

\* fromValue with v > MAX_VALUE left out of the check
fromValue_NoUpperBound(self, v) ==
    IF ~IsInteger(v) \/ Less(v, Zero)
    THEN Throw(self, "ValueRange")
    ELSE Ok([self EXCEPT !.value = v])

\* fromValue / fromByte / fromShort / fromLong
fromValue(self, v) ==
    IF ~IsInteger(v) \/ Less(v, Zero) \/ (\E m \in self.MAX_VALUE : Less(m, v))
    THEN Throw(self, "ValueRange")
    ELSE Ok([self EXCEPT !.value = v])

\* ------------------------------------------------------------ plain objects
\* A plain object is the sequence of its own properties [k, v] in the order
\* Object.keys and Object.entries list them: the keys that are array indices
\* in ascending numeric order, then the other keys in creation order.
DigitValue(c) == CHOOSE d \in 0..9 : DigitChars[d + 1] = c

IsDigits(k) == \A i \in 1..Len(k) : \E d \in 1..10 : DigitChars[d] = k[i]

\* a < b for two digit strings of the same length
LexLess(a, b) ==
    \E i \in 1..Len(a) :
        /\ \A j \in 1..(i - 1) : a[j] = b[j]
        /\ DigitValue(a[i]) < DigitValue(b[i])

\* 2^32 - 2, the largest array index
MaxIndex == <<"4", "2", "9", "4", "9", "6", "7", "2", "9", "4">>

\* k is the canonical decimal form of an integer 0 .. 2^32 - 2
IsArrayIndex(k) ==
    /\ Len(k) >= 1
    /\ IsDigits(k)
    /\ (k[1] # "0" \/ Len(k) = 1)
    /\ (Len(k) < 10 \/ (Len(k) = 10 /\ ~LexLess(MaxIndex, k)))

IndexLess(a, b) == Len(a) < Len(b) \/ (Len(a) = Len(b) /\ LexLess(a, b))

EmptyObject == <<>>

HasOwn(obj, k) == \E i \in 1..Len(obj) : obj[i].k = k

\* CreateDataProperty: an existing key keeps its place, a new array index goes
\* behind the smaller indices, any other new key goes to the end
CreateDataProperty(obj, k, v) ==
    IF HasOwn(obj, k)
    THEN [i \in 1..Len(obj) |-> IF obj[i].k = k THEN [k |-> k, v |-> v] ELSE obj[i]]
    ELSE IF IsArrayIndex(k)
    THEN LET before == Cardinality({i \in 1..Len(obj) :
                          IsArrayIndex(obj[i].k) /\ IndexLess(obj[i].k, k)})
         IN  SubSeq(obj, 1, before) \o <<[k |-> k, v |-> v]>>
               \o SubSeq(obj, before + 1, Len(obj))
    ELSE Append(obj, [k |-> k, v |-> v])

ProtoKey == <<"_", "_", "p", "r", "o", "t", "o", "_", "_">>

\* obj[k] = v on an object made by {}: the key __proto__ is the setter
\* inherited from Object.prototype, which ignores a value that is not an
\* object; every other key becomes an own property
Assign(obj, k, v) ==
    IF k = ProtoKey THEN obj ELSE CreateDataProperty(obj, k, v)

\* toObject: flagList.reduce((obj, name) => { obj[name] = this.getFlag(name);
\* return obj }, {})
\* (the object of each step is bound to its value before the next step)
RECURSIVE ToObjectFrom(_, _, _)
ToObjectFrom(self, i, obj) ==
    IF i > Len(self.flagList) THEN obj
    ELSE CHOOSE r \in
            {ToObjectFrom(self, i + 1, o) :
                o \in {Assign(obj, self.flagList[i].s,
                              getFlag(self, self.flagList[i]).ret)}} : TRUE

toObject(self) == ToObjectFrom(self, 1, EmptyObject)

\* [...this.flagList]
getFlagNames(self) == self.flagList

\* ------------------------------------------------------------ JSON
\* JavaScript values as JSON.parse returns them
JBool(b) == [t |-> "boolean", b |-> b]
JNull == [t |-> "null"]
JNumber(n) == [t |-> "number", n |-> n]
JString(s) == [t |-> "string", s |-> s]
JArray(items) == [t |-> "array", items |-> items]
JObject(entries) == [t |-> "object", entries |-> entries]

\* ToBoolean, as if (value) in setBit applies it
ToBoolean(v) ==
    CASE v.t = "boolean" -> v.b
      [] v.t = "null" -> FALSE
      [] v.t = "number" -> v.n # 0
      [] v.t = "string" -> v.s # <<>>
      [] OTHER -> TRUE

\* the characters of a string between the quotes of its JSON form: a quote,
\* a backslash, a tab and a line feed are escaped (the other control
\* characters, which become \uXXXX, are not among the characters used here)
RECURSIVE Quoted(_)
Quoted(k) ==
    IF k = <<>> THEN <<>>
    ELSE (CASE Head(k) = "\"" -> <<"\\", "\"">>
            [] Head(k) = "\\" -> <<"\\", "\\">>
            [] Head(k) = "\t" -> <<"\\", "t">>
            [] Head(k) = "\n" -> <<"\\", "n">>
            [] OTHER -> <<Head(k)>>) \o Quoted(Tail(k))

Literal(b) == IF b THEN <<"t", "r", "u", "e">> ELSE <<"f", "a", "l", "s", "e">>

\* the members of JSON.stringify(obj) from the i-th on, obj an object whose
\* values are booleans
RECURSIVE Members(_, _)
Members(obj, i) ==
    IF i > Len(obj) THEN <<>>
    ELSE (IF i > 1 THEN <<",">> ELSE <<>>)
           \o <<"\"">> \o Quoted(obj[i].k) \o <<"\"", ":">> \o Literal(obj[i].v)
           \o Members(obj, i + 1)

\* JSON.stringify of an object whose values are booleans
JSONStringify(obj) == <<"{">> \o Members(obj, 1) \o <<"}">>

\* toJSON: JSON.stringify(this.toObject())
toJSON(self) == JSONStringify(toObject(self))

\* JSON.parse of the text t. Parsers take a position in t and return
\* [ok, v, p]: whether they matched, the value, and the position behind it.
\* Numbers are integers without fraction and exponent, and the escapes are
\* \" \\ \/ \n \t: the texts parsed here hold no other.
Fail == [ok |-> FALSE, v |-> JNull, p |-> 0]
Done(v, p) == [ok |-> TRUE, v |-> v, p |-> p]

JsonWhiteSpace == {" ", "\t", "\n", "\r"}

RECURSIVE SkipWs(_, _)
SkipWs(t, p) ==
    IF p <= Len(t) /\ t[p] \in JsonWhiteSpace THEN SkipWs(t, p + 1) ELSE p

At(t, p, c) == p <= Len(t) /\ t[p] = c

Matches(t, p, word) ==
    p + Len(word) - 1 <= Len(t) /\ SubSeq(t, p, p + Len(word) - 1) = word

Unescape(c) ==
    CASE c = "n" -> "\n"
      [] c = "t" -> "\t"
      [] OTHER -> c

\* the characters of a string up to its closing quote; p is behind the
\* opening quote
RECURSIVE ParseChars(_, _, _)
ParseChars(t, p, acc) ==
    IF p > Len(t) THEN Fail
    ELSE IF t[p] = "\"" THEN Done(acc, p + 1)
    ELSE IF t[p] = "\\"
    THEN IF p + 1 <= Len(t) /\ t[p + 1] \in {"\"", "\\", "/", "n", "t"}
         THEN ParseChars(t, p + 2, Append(acc, Unescape(t[p + 1])))
         ELSE Fail
    ELSE IF t[p] \in {"\t", "\n", "\r"} THEN Fail
    ELSE ParseChars(t, p + 1, Append(acc, t[p]))

IsDigit(c) == \E d \in 1..10 : DigitChars[d] = c

\* digits from p on: [ok, v, p] with v the number read so far
RECURSIVE ParseDigits(_, _, _)
ParseDigits(t, p, n) ==
    IF p <= Len(t) /\ IsDigit(t[p])
    THEN ParseDigits(t, p + 1, 10 * n + DigitValue(t[p]))
    ELSE Done(JNumber(n), p)

ParseNumber(t, p) ==
    LET q == IF At(t, p, "-") THEN p + 1 ELSE p
        r == ParseDigits(t, q, 0)
    IN  IF q > Len(t) \/ ~IsDigit(t[q]) THEN Fail
        ELSE IF t[q] = "0" /\ r.p > q + 1 THEN Fail
        ELSE IF q > p THEN Done(JNumber(0 - r.v.n), r.p)
        ELSE r

RECURSIVE ParseValue(_, _)
RECURSIVE ParseMembers(_, _, _)
RECURSIVE ParseElements(_, _, _)

\* "key" : value , ... } from p on; obj holds the members read so far. A key
\* that comes twice keeps its first place and takes the last value.
ParseMembers(t, p, obj) ==
    LET q == SkipWs(t, p)
        key == IF At(t, q, "\"") THEN ParseChars(t, q + 1, <<>>) ELSE Fail
        colon == SkipWs(t, key.p)
        val == IF key.ok /\ At(t, colon, ":") THEN ParseValue(t, colon + 1)
               ELSE Fail
        d == SkipWs(t, val.p)
    IN  IF ~val.ok THEN Fail
        ELSE CHOOSE r \in
                {IF At(t, d, ",") THEN ParseMembers(t, d + 1, o)
                 ELSE IF At(t, d, "}") THEN Done(JObject(o), d + 1)
                 ELSE Fail :
                    o \in {CreateDataProperty(obj, key.v, val.v)}} : TRUE

\* value , ... ] from p on
ParseElements(t, p, items) ==
    LET val == ParseValue(t, p)
        d == SkipWs(t, val.p)
    IN  IF ~val.ok THEN Fail
        ELSE IF At(t, d, ",") THEN ParseElements(t, d + 1, Append(items, val.v))
        ELSE IF At(t, d, "]") THEN Done(JArray(Append(items, val.v)), d + 1)
        ELSE Fail

ParseValue(t, p) ==
    LET q == SkipWs(t, p)
    IN  IF q > Len(t) THEN Fail
        ELSE IF t[q] = "{"
        THEN IF At(t, SkipWs(t, q + 1), "}")
             THEN Done(JObject(EmptyObject), SkipWs(t, q + 1) + 1)
             ELSE ParseMembers(t, q + 1, EmptyObject)
        ELSE IF t[q] = "["
        THEN IF At(t, SkipWs(t, q + 1), "]")
             THEN Done(JArray(<<>>), SkipWs(t, q + 1) + 1)
             ELSE ParseElements(t, q + 1, <<>>)
        ELSE IF t[q] = "\""
        THEN LET str == ParseChars(t, q + 1, <<>>)
             IN  IF str.ok THEN Done(JString(str.v), str.p) ELSE Fail
        ELSE IF Matches(t, q, Literal(TRUE)) THEN Done(JBool(TRUE), q + 4)
        ELSE IF Matches(t, q, Literal(FALSE)) THEN Done(JBool(FALSE), q + 5)
        ELSE IF Matches(t, q, <<"n", "u", "l", "l">>) THEN Done(JNull, q + 4)
        ELSE ParseNumber(t, q)

\* JSON.parse: one value with nothing but white space behind it, or a
\* SyntaxError
JSONParse(t) ==
    LET r == ParseValue(t, 1)
    IN  IF r.ok /\ SkipWs(t, r.p) > Len(t) THEN [ok |-> TRUE, v |-> r.v]
        ELSE [ok |-> FALSE, v |-> JNull]

\* Object.entries(v): the own enumerable properties of v made an object;
\* a number and a boolean have none. (null: see fromJSON.)
ObjectEntries(v) ==
    CASE v.t = "object" -> v.entries
      [] v.t = "array" ->
            [i \in 1..Len(v.items) |-> [k |-> Decimal(i - 1), v |-> v.items[i]]]
      [] v.t = "string" ->
            [i \in 1..Len(v.s) |-> [k |-> Decimal(i - 1), v |-> JString(<<v.s[i]>>)]]
      [] OTHER -> <<>>

\* Object.keys(v)
ObjectKeys(v) == [i \in 1..Len(ObjectEntries(v)) |-> ObjectEntries(v)[i].k]

\* the [name, value] pairs setFlags sees, each value as if (value) takes it
FlagEntries(v) ==
    [i \in 1..Len(ObjectEntries(v)) |->
        [k |-> Str(ObjectEntries(v)[i].k), v |-> ToBoolean(ObjectEntries(v)[i].v)]]

\* fromJSON that builds the instance and leaves out setFlags(obj)
fromJSON_NoValues(i, json) ==
    LET parsed == IF json.t = "string" THEN JSONParse(json.s)
                  ELSE [ok |-> TRUE, v |-> json]
        obj == parsed.v
        names == [k \in 1..Len(ObjectKeys(obj)) |-> Str(ObjectKeys(obj)[k])]
        instance == New(i, names)
    IN  IF ~parsed.ok THEN Throw(NoFields(i), "SyntaxError")
        ELSE IF obj.t = "null" THEN Throw(NoFields(i), "TypeError")
        ELSE IF instance.err # "none" THEN Throw(NoFields(i), instance.err)
        ELSE Ok(instance.self)

\* fromJSON without JSON.parse: a string is taken as the mapping
fromJSON_NoParse(i, json) ==
    LET names == [k \in 1..Len(ObjectKeys(json)) |-> Str(ObjectKeys(json)[k])]
        instance == New(i, names)
    IN  IF json.t = "null" THEN Throw(NoFields(i), "TypeError")
        ELSE IF instance.err # "none" THEN Throw(NoFields(i), instance.err)
        ELSE setFlags(instance.self, FlagEntries(json))

\* static fromJSON(json) of class i:
\*   const obj = typeof json === "string" ? JSON.parse(json) : json;
\*   const instance = new X(...Object.keys(obj));
\*   return instance.setFlags(obj);
\* Object.keys(null) is a TypeError.
fromJSON(i, json) ==
    LET parsed == IF json.t = "string" THEN JSONParse(json.s)
                  ELSE [ok |-> TRUE, v |-> json]
        obj == parsed.v
        names == [k \in 1..Len(ObjectKeys(obj)) |-> Str(ObjectKeys(obj)[k])]
        instance == New(i, names)
    IN  IF ~parsed.ok THEN Throw(NoFields(i), "SyntaxError")
        ELSE IF obj.t = "null" THEN Throw(NoFields(i), "TypeError")
        ELSE IF instance.err # "none" THEN Throw(NoFields(i), instance.err)
        ELSE setFlags(instance.self, FlagEntries(obj))

\* ------------------------------------------------------------ state
VARIABLES
    live,         \* TRUE once a constructor has returned an instance
    impl,         \* the class of the instance
    value,        \* this.value (this.byte in the standalone classes)
    nextIndex,    \* this.nextIndex
    flagList,     \* this.flagList
    flagIndices,  \* this.flagIndices
    accessors,    \* property key -> bit index of the accessor addFlag defined
    MAX_FLAGS,    \* this.MAX_FLAGS
    MAX_VALUE,    \* this.MAX_VALUE
    last,         \* the call that has just returned or thrown: its arguments,
                  \* its outcome and the instance as it was before the call;
                  \* op = "idle" while the caller is between calls
    heap,         \* the arrays, Maps and plain objects in memory, by address
    objs,         \* two instances a caller holds side by side, their
                  \* flagList and flagIndices as addresses
    held          \* what that caller got back: arrays, objects, an iterator

hvars == <<heap, objs, held>>

cvars == <<live, impl, value, nextIndex, flagList, flagIndices, accessors,
           MAX_FLAGS, MAX_VALUE, last>>

vars == <<cvars, hvars>>

This ==
    [impl |-> impl, value |-> value, nextIndex |-> nextIndex,
     flagList |-> flagList, flagIndices |-> flagIndices,
     accessors |-> accessors, MAX_FLAGS |-> MAX_FLAGS, MAX_VALUE |-> MAX_VALUE]

Store(self) ==
    /\ impl' = self.impl
    /\ value' = self.value
    /\ nextIndex' = self.nextIndex
    /\ flagList' = self.flagList
    /\ flagIndices' = self.flagIndices
    /\ accessors' = self.accessors
    /\ MAX_FLAGS' = self.MAX_FLAGS
    /\ MAX_VALUE' = self.MAX_VALUE

\* No instance: nothing was constructed yet, or the constructor threw.
NoInstance == [Fields("none") EXCEPT !.MAX_FLAGS = {}, !.MAX_VALUE = {}]

Call(op) ==
    [op |-> op, err |-> "none", names |-> <<>>, flags |-> <<>>, v |-> FALSE,
     num |-> Zero, ret |-> FALSE, json |-> JNull, pre |-> This]

\* ------------------------------------------------------------ inputs
Missing == Str(<<"n", "o", "p", "e">>)

Gen(n) == [k \in 1..n |-> F(k - 1)]

\* lengths 0, 1, 2, the 9 names the 8-bit classes reject, and capacity and
\* capacity + 1 of the class
Lengths(i) == {0, 1, 2, 9, StaticMaxFlags(i), StaticMaxFlags(i) + 1}

\* a duplicate, a duplicate after another name, an empty name, a blank name,
\* a name that is not a string
BadLists ==
    {<<F(0), F(0)>>, <<F(0), F(1), F(0)>>, <<Str(<<>>)>>,
     <<F(0), Str(<<" ", "\t">>)>>, <<F(0), NotAString>>}

\* names that differ in case or in surrounding blanks are different names
CaseList == <<Str(<<"a">>), Str(<<"A">>), Str(<<" ", "a">>)>>

\* names a plain object treats specially: __proto__, and array indices,
\* which Object.keys lists first and in numeric order
KeyLists ==
    {<<Str(ProtoKey)>>, <<F(0), Str(ProtoKey)>>,
     <<Str(<<"b">>), Str(<<"1", "0">>), Str(<<"1">>)>>}

\* a name with characters JSON escapes
EscapeList == <<Str(<<"\"", "\\", "\t", "x">>)>>

NameLists(i) ==
    {Gen(n) : n \in Lengths(i)} \cup BadLists \cup {CaseList, EscapeList}
        \cup KeyLists

Min(a, b) == IF a < b THEN a ELSE b

\* the names single-flag calls are made with
OpNames ==
    {flagList[k] : k \in 1..Min(OpWidth, Len(flagList))}
      \cup {flagList[k] : k \in {Len(flagList)} \ {0}}
      \cup {Missing}

\* the names bulk calls are made with
BulkNames ==
    {flagList[k] : k \in ({1, Len(flagList)} \ {0}) \cap 1..Len(flagList)}
      \cup {Missing}

RECURSIVE SeqsUpTo(_, _)
SeqsUpTo(S, n) ==
    IF n = 0 THEN {<<>>}
    ELSE LET shorter == SeqsUpTo(S, n - 1)
         IN  shorter \cup {Append(q, x) : q \in shorter, x \in S}

ArgLists == SeqsUpTo(BulkNames, MaxArgs)

\* Object.entries of a mapping: its keys are distinct
Mappings ==
    {m \in SeqsUpTo([k : BulkNames, v : BOOLEAN], MaxArgs) :
        \A a, b \in 1..Len(m) : a # b => m[a].k # m[b].k}

MinusOne == Num(-1, Limb - 1)
OneAndAHalf == [hi |-> 0, lo |-> 1, half |-> TRUE]
TwoTo31 == Num(HalfLimb, 0)

\* n + 1
Succ(n) == IF n.lo = Limb - 1 THEN Num(n.hi + 1, 0) ELSE Num(n.hi, n.lo + 1)

\* integers loaded with fromValue: 0, 1, 4, 2^31, the largest legal value and
\* its successor, -1, 1.5
Values(i) ==
    {Zero, Num(0, 1), Num(0, 4), TwoTo31, StaticMaxValue(i),
     Succ(StaticMaxValue(i)), MinusOne, OneAndAHalf}

\* the mapping f0: true, f1: false, f2: true, ... of n flags
FlagObject(n) == [k \in 1..n |-> [k |-> F(k - 1).s, v |-> k % 2 = 1]]

\* the object whose values are the booleans of obj as JavaScript values
Boxed(obj) == [k \in 1..Len(obj) |-> [k |-> obj[k].k, v |-> JBool(obj[k].v)]]

\* no key, 1, 2, capacity and capacity + 1 keys
JsonLengths(i) == {0, 1, 2, StaticMaxFlags(i), StaticMaxFlags(i) + 1}

InQuotes(k) == <<"\"">> \o k \o <<"\"">>

Member(k, text) == InQuotes(k) \o <<":">> \o text

NotJson == <<"n", "o", "t", " ", "a", " ", "j", "s", "o", "n">>

NullText == <<"n", "u", "l", "l">>

\* { "a" : true }
SpacedText ==
    <<" ", "{", " ">> \o InQuotes(<<"a">>) \o <<" ", ":", " ">> \o Literal(TRUE)
        \o <<" ", "}", "\n">>

\* {"a":true,"b":false,"a":false}
DuplicateKeyText ==
    <<"{">> \o Member(<<"a">>, Literal(TRUE)) \o <<",">>
        \o Member(<<"b">>, Literal(FALSE)) \o <<",">>
        \o Member(<<"a">>, Literal(FALSE)) \o <<"}">>

\* {"b":true,"10":false,"1":true}
IndexKeyText ==
    <<"{">> \o Member(<<"b">>, Literal(TRUE)) \o <<",">>
        \o Member(<<"1", "0">>, Literal(FALSE)) \o <<",">>
        \o Member(<<"1">>, Literal(TRUE)) \o <<"}">>

\* {"a":1,"b":null,"c":""}
OtherValuesText ==
    <<"{">> \o Member(<<"a">>, <<"1">>) \o <<",">>
        \o Member(<<"b">>, NullText) \o <<",">>
        \o Member(<<"c">>, InQuotes(<<>>)) \o <<"}">>

\* {"__proto__":true}
ProtoKeyText == <<"{">> \o Member(ProtoKey, Literal(TRUE)) \o <<"}">>

\* {"a":true}x
TrailingText == <<"{">> \o Member(<<"a">>, Literal(TRUE)) \o <<"}", "x">>

\* the strings fromJSON is called with
JsonTexts(i) ==
    {JSONStringify(FlagObject(n)) : n \in JsonLengths(i)}
      \cup {NotJson, NullText, SpacedText, DuplicateKeyText, IndexKeyText,
            OtherValuesText, ProtoKeyText, TrailingText,
            InQuotes(<<"a", "b">>), <<"7">>, <<"[", "]">>}

\* the objects fromJSON is called with: mappings, one with a blank key, and
\* an array
JsonObjects(i) ==
    {JObject(Boxed(FlagObject(n))) : n \in JsonLengths(i)}
      \cup {JObject(<<[k |-> <<" ">>, v |-> JBool(TRUE)]>>),
            JObject(<<[k |-> <<"1">>, v |-> JBool(TRUE)],
                      [k |-> <<"b">>, v |-> JBool(TRUE)]>>),
            JArray(<<JBool(TRUE)>>)}

JsonInputs(i) == JsonObjects(i) \cup {JString(t) : t \in JsonTexts(i)}

\* ------------------------------------------------------------ actions
NoCall ==
    [op |-> "idle", err |-> "none", names |-> <<>>, flags |-> <<>>,
     v |-> FALSE, num |-> Zero, ret |-> FALSE, json |-> JNull,
     pre |-> NoInstance]

\* the caller is between two calls
Idle == last.op = "idle"

\* ------------------------------------------------------------ memory
\* The most objects in memory at a time: the two arrays and two Maps of two
\* instances, an array or an object the caller was given, one spare.
MaxHeap == 6

\* an address that holds no object; no reference
Free == [t |-> "free", c |-> <<>>]
Nowhere == 0

\* the two instances
Containers == {1, 2}

\* a variable of the caller that holds no instance yet
NoObject ==
    [live |-> FALSE, impl |-> "none", value |-> Zero, nextIndex |-> 0,
     flagList |-> Nowhere, flagIndices |-> Nowhere, accessors |-> EmptyMap,
     MAX_FLAGS |-> {}, MAX_VALUE |-> {}, born |-> <<>>, by |-> "nothing"]

\* the caller holding nothing. kind is what the caller was given last: the
\* array of getFlagNames() / getFlags() or the object of toObject(), at
\* address ref, or a traversal of instance iter, with the pairs it produced
\* and done set once it has ended; op is the caller's last step and on the
\* instance it was made on; raised tells, for a call made on both instances,
\* which of the two calls threw
NothingHeld ==
    [kind |-> "nothing", ref |-> Nowhere, iter |-> 0, pairs |-> <<>>,
     done |-> FALSE, op |-> "idle", on |-> 0, raised |-> <<FALSE, FALSE>>]

Init ==
    /\ heap = [a \in 1..MaxHeap |-> Free]
    /\ objs = [c \in Containers |-> NoObject]
    /\ held = NothingHeld
    /\ live = FALSE
    /\ impl = NoInstance.impl
    /\ value = NoInstance.value
    /\ nextIndex = NoInstance.nextIndex
    /\ flagList = NoInstance.flagList
    /\ flagIndices = NoInstance.flagIndices
    /\ accessors = NoInstance.accessors
    /\ MAX_FLAGS = NoInstance.MAX_FLAGS
    /\ MAX_VALUE = NoInstance.MAX_VALUE
    /\ last = NoCall

\* new X(...flagNames) / createXFlags(...flagNames)
Construct ==
    /\ ~live /\ Idle
    /\ UNCHANGED hvars
    /\ \E i \in Impls : \E flagNames \in NameLists(i) :
          \E r \in {New(i, flagNames)} :
              /\ live' = (r.err = "none")
              /\ Store(IF r.err = "none" THEN r.self ELSE NoInstance)
              /\ last' = [Call("new") EXCEPT !.err = r.err,
                            !.names = flagNames,
                            !.pre = [NoInstance EXCEPT !.impl = i]]

HasFlag ==
    /\ live /\ Idle
    /\ UNCHANGED hvars
    /\ \E name \in OpNames :
          /\ last' = [Call("hasFlag") EXCEPT !.names = <<name>>,
                        !.ret = hasFlag(This, name)]
          /\ UNCHANGED <<live, impl, value, nextIndex, flagList, flagIndices,
                         accessors, MAX_FLAGS, MAX_VALUE>>

GetFlag ==
    /\ live /\ Idle
    /\ UNCHANGED hvars
    /\ \E name \in OpNames :
          \E r \in {getFlag(This, name)} :
              /\ last' = [Call("getFlag") EXCEPT !.names = <<name>>,
                            !.err = r.err, !.ret = r.ret]
              /\ UNCHANGED <<live, impl, value, nextIndex, flagList,
                             flagIndices, accessors, MAX_FLAGS, MAX_VALUE>>

SetFlag ==
    /\ live /\ Idle
    /\ UNCHANGED hvars
    /\ \E name \in OpNames, v \in BOOLEAN :
          \E r \in {setFlag(This, name, v)} :
              /\ Store(r.self)
              /\ last' = [Call("setFlag") EXCEPT !.names = <<name>>, !.v = v,
                            !.err = r.err]
              /\ UNCHANGED live

ToggleFlag ==
    /\ live /\ Idle
    /\ UNCHANGED hvars
    /\ \E name \in OpNames :
          \E r \in {ToggleOne(This, name)} :
              /\ Store(r.self)
              /\ last' = [Call("toggleFlag") EXCEPT !.names = <<name>>,
                            !.err = r.err]
              /\ UNCHANGED live

\* flags.name = v
PropertyWrite ==
    /\ live /\ Idle
    /\ UNCHANGED hvars
    /\ \E name \in OpNames, v \in BOOLEAN :
          /\ Store(PropertySet(This, name.s, v))
          /\ last' = [Call("property") EXCEPT !.names = <<name>>, !.v = v]
          /\ UNCHANGED live

SetFlags ==
    /\ live /\ Idle
    /\ UNCHANGED hvars
    /\ HasMethod(impl, "setFlags")
    /\ \E flags \in Mappings :
          \E r \in {setFlags(This, flags)} :
              /\ Store(r.self)
              /\ last' = [Call("setFlags") EXCEPT !.flags = flags,
                            !.err = r.err]
              /\ UNCHANGED live

ToggleFlags ==
    /\ live /\ Idle
    /\ UNCHANGED hvars
    /\ HasMethod(impl, "toggleFlags")
    /\ \E names \in ArgLists :
          \E r \in {ToggleMany(This, names)} :
              /\ Store(r.self)
              /\ last' = [Call("toggleFlags") EXCEPT !.names = names,
                            !.err = r.err]
              /\ UNCHANGED live

\* fromValue and its aliases fromByte / fromShort / fromLong
FromValue ==
    /\ live /\ Idle
    /\ UNCHANGED hvars
    /\ \E v \in Values(impl) :
          \E r \in {fromValue(This, v)} :
              /\ Store(r.self)
              /\ last' = [Call("fromValue") EXCEPT !.num = v, !.err = r.err]
              /\ UNCHANGED live

All ==
    /\ live /\ Idle
    /\ UNCHANGED hvars
    /\ HasMethod(impl, "all")
    /\ \E names \in ArgLists :
          \E r \in {all(This, names)} :
              /\ last' = [Call("all") EXCEPT !.names = names, !.err = r.err,
                            !.ret = r.ret]
              /\ UNCHANGED <<live, impl, value, nextIndex, flagList,
                             flagIndices, accessors, MAX_FLAGS, MAX_VALUE>>

AnyOf ==
    /\ live /\ Idle
    /\ UNCHANGED hvars
    /\ HasMethod(impl, "anyOf")
    /\ \E names \in ArgLists :
          \E r \in {anyOf(This, names)} :
              /\ last' = [Call("anyOf") EXCEPT !.names = names, !.err = r.err,
                            !.ret = r.ret]
              /\ UNCHANGED <<live, impl, value, nextIndex, flagList,
                             flagIndices, accessors, MAX_FLAGS, MAX_VALUE>>

NoneOf ==
    /\ live /\ Idle
    /\ UNCHANGED hvars
    /\ HasMethod(impl, "noneOf")
    /\ \E names \in ArgLists :
          \E r \in {noneOf(This, names)} :
              /\ last' = [Call("noneOf") EXCEPT !.names = names, !.err = r.err,
                            !.ret = r.ret]
              /\ UNCHANGED <<live, impl, value, nextIndex, flagList,
                             flagIndices, accessors, MAX_FLAGS, MAX_VALUE>>

Count ==
    /\ live /\ Idle
    /\ UNCHANGED hvars
    /\ HasMethod(impl, "count")
    /\ last' = [Call("count") EXCEPT !.num = Num(0, count(This))]
    /\ UNCHANGED <<live, impl, value, nextIndex, flagList, flagIndices,
                   accessors, MAX_FLAGS, MAX_VALUE>>

AnyFlag ==
    /\ live /\ Idle
    /\ UNCHANGED hvars
    /\ HasMethod(impl, "any")
    /\ last' = [Call("any") EXCEPT !.ret = any(This)]
    /\ UNCHANGED <<live, impl, value, nextIndex, flagList, flagIndices,
                   accessors, MAX_FLAGS, MAX_VALUE>>

NoFlag ==
    /\ live /\ Idle
    /\ UNCHANGED hvars
    /\ HasMethod(impl, "none")
    /\ last' = [Call("none") EXCEPT !.ret = none(This)]
    /\ UNCHANGED <<live, impl, value, nextIndex, flagList, flagIndices,
                   accessors, MAX_FLAGS, MAX_VALUE>>

ToJSON ==
    /\ live /\ Idle
    /\ UNCHANGED hvars
    /\ HasMethod(impl, "toJSON")
    /\ last' = [Call("toJSON") EXCEPT !.json = JString(toJSON(This))]
    /\ UNCHANGED <<live, impl, value, nextIndex, flagList, flagIndices,
                   accessors, MAX_FLAGS, MAX_VALUE>>

\* X.fromJSON(json): the static factory returns a new instance
FromJSON ==
    /\ ~live /\ Idle
    /\ UNCHANGED hvars
    /\ \E i \in Impls : \E json \in JsonInputs(i) :
          /\ HasMethod(i, "fromJSON")
          /\ \E r \in {fromJSON(i, json)} :
                /\ live' = (r.err = "none")
                /\ Store(IF r.err = "none" THEN r.self ELSE NoInstance)
                /\ last' = [Call("fromJSON") EXCEPT !.err = r.err,
                              !.json = json,
                              !.pre = [NoInstance EXCEPT !.impl = i]]

\* Members the README documents for every class: reset(), setAll()
Documented == {"reset", "setAll"}

\* flags.m() for a member m that neither the instance nor its classes
\* define: flags.m is undefined and the call throws a TypeError
NotAFunction ==
    /\ live /\ Idle
    /\ UNCHANGED hvars
    /\ \E m \in Documented :
          /\ ~HasMethod(impl, m)
          /\ last' = [Call(m) EXCEPT !.err = "TypeError"]
    /\ UNCHANGED <<live, impl, value, nextIndex, flagList, flagIndices,
                   accessors, MAX_FLAGS, MAX_VALUE>>

\* the caller takes the outcome of the call and goes on
Return ==
    /\ ~Idle
    /\ UNCHANGED hvars
    /\ last' = NoCall
    /\ UNCHANGED <<live, impl, value, nextIndex, flagList, flagIndices,
                   accessors, MAX_FLAGS, MAX_VALUE>>

Next ==
    \/ Construct
    \/ HasFlag
    \/ GetFlag
    \/ SetFlag
    \/ ToggleFlag
    \/ PropertyWrite
    \/ SetFlags
    \/ ToggleFlags
    \/ FromValue
    \/ All
    \/ AnyOf
    \/ NoneOf
    \/ Count
    \/ AnyFlag
    \/ NoFlag
    \/ ToJSON
    \/ FromJSON
    \/ NotAFunction
    \/ Return

Spec == Init /\ [][Next]_vars

\* The callers that never load an integer: every call but fromValue (fromByte,
\* fromShort, fromLong).
NextUnloaded ==
    \/ Construct
    \/ HasFlag
    \/ GetFlag
    \/ SetFlag
    \/ ToggleFlag
    \/ PropertyWrite
    \/ SetFlags
    \/ ToggleFlags
    \/ All
    \/ AnyOf
    \/ NoneOf
    \/ Count
    \/ AnyFlag
    \/ NoFlag
    \/ ToJSON
    \/ FromJSON
    \/ NotAFunction
    \/ Return

SpecUnloaded == Init /\ [][NextUnloaded]_vars

\* ------------------------------------------------------------ references
\* A caller that holds two instances and the arrays, objects and iterators
\* their methods return. Arrays, Maps and plain objects are in memory, the
\* instances and the caller hold their addresses.
Array(c) == [t |-> "array", c |-> c]
MapOf(c) == [t |-> "map", c |-> c]
Plain(c) == [t |-> "object", c |-> c]

\* the address of a newly created object: one that holds nothing
Alloc(h) ==
    CHOOSE a \in DOMAIN h : h[a] = Free /\ \A b \in 1..(a - 1) : h[b] # Free

Put(h, a, x) == [h EXCEPT ![a] = x]

\* what no instance and no variable of the caller refers to is collected
Collect(h, os, hd) ==
    LET reachable == {os[c].flagList : c \in Containers}
                        \cup {os[c].flagIndices : c \in Containers}
                        \cup {hd.ref}
    IN  [a \in DOMAIN h |-> IF a \in reachable THEN h[a] ELSE Free]

\* flagList and flagIndices as static fields, one array and one Map for all
\* instances
NewFields_Static(h) ==
    IF \E a \in DOMAIN h : h[a].t = "array"
    THEN [flagList |-> CHOOSE a \in DOMAIN h :
                          h[a].t = "array" /\ \A b \in 1..(a - 1) : h[b].t # "array",
          flagIndices |-> CHOOSE a \in DOMAIN h :
                          h[a].t = "map" /\ \A b \in 1..(a - 1) : h[b].t # "map",
          heap |-> h]
    ELSE LET a == Alloc(h)
             b == Alloc(Put(h, a, Array(<<>>)))
         IN  [flagList |-> a, flagIndices |-> b,
              heap |-> Put(Put(h, a, Array(<<>>)), b, MapOf(EmptyMap))]

\* the field initialisers flagList = [] and flagIndices = new Map(): a new
\* array and a new Map for each instance
NewFields(h) ==
    LET a == Alloc(h)
        b == Alloc(Put(h, a, Array(<<>>)))
    IN  [flagList |-> a, flagIndices |-> b,
         heap |-> Put(Put(h, a, Array(<<>>)), b, MapOf(EmptyMap))]

\* getFlagNames returning this.flagList itself
CopyArray_Alias(h, a) == [at |-> a, heap |-> h]

\* [...this.flagList]: a new array with the elements of the array at a
CopyArray(h, a) == [at |-> Alloc(h), heap |-> Put(h, Alloc(h), h[a])]

\* this, for the instance o: the fields with the array and the Map they
\* refer to
View(h, o) ==
    [impl |-> o.impl, value |-> o.value, nextIndex |-> o.nextIndex,
     flagList |-> h[o.flagList].c, flagIndices |-> h[o.flagIndices].c,
     accessors |-> o.accessors, MAX_FLAGS |-> o.MAX_FLAGS,
     MAX_VALUE |-> o.MAX_VALUE]

\* the instance c of the caller that holds two
Held(c) == View(heap, objs[c])

\* the instance o and memory after a method left this as self: push and set
\* work on the array and the Map the fields refer to
Written(h, o, self) ==
    [obj |-> [o EXCEPT !.impl = self.impl, !.value = self.value,
                       !.nextIndex = self.nextIndex,
                       !.accessors = self.accessors,
                       !.MAX_FLAGS = self.MAX_FLAGS,
                       !.MAX_VALUE = self.MAX_VALUE],
     heap |-> Put(Put(h, o.flagList, Array(self.flagList)),
                  o.flagIndices, MapOf(self.flagIndices))]

\* a call on instance c that left this as self
Commit(c, self) ==
    LET w == Written(heap, objs[c], self)
    IN  /\ objs' = [objs EXCEPT ![c] = w.obj]
        /\ held' = [held EXCEPT !.op = "write", !.on = c]
        /\ heap' = w.heap
        /\ UNCHANGED cvars

\* a constructor or fromJSON returned r for the caller's variable c: the new
\* instance has its own array and Map; born keeps the registry as it was
\* when the instance was returned and by what returned it
Created(c, r, op) ==
    IF r.err # "none"
    THEN /\ held' = [held EXCEPT !.op = op, !.on = c]
         /\ UNCHANGED <<heap, objs, cvars>>
    ELSE LET f == NewFields(heap)
             o == [NoObject EXCEPT !.live = TRUE, !.flagList = f.flagList,
                                   !.flagIndices = f.flagIndices,
                                   !.born = getFlagNames(r.self),
                                   !.by = op]
             w == Written(f.heap, o, r.self)
         IN  /\ objs' = [objs EXCEPT ![c] = w.obj]
             /\ held' = [held EXCEPT !.op = op, !.on = c]
             /\ heap' = w.heap
             /\ UNCHANGED cvars

\* names the two instances are built with and called with
HeapWidth == 2

HeapLists == {Gen(n) : n \in 1..HeapWidth}

HeapNames == {F(k) : k \in 0..(HeapWidth - 1)}

\* the classes of the two instances: the first ByteFlags, the standalone
\* ByteFlags and a subclass of BaseFlags
HeapImpls == {"ByteFlagsV1", "ByteFlagsStandalone", "LongFlags"}

\* integers loaded into the two instances
HeapValues == {Zero, Num(0, 3)}

\* the instances in use, with method m
Using(m) == {c \in Containers : objs[c].live /\ HasMethod(objs[c].impl, m)}

\* a = new X(...), then b = new Y(...)
HConstruct ==
    \E c \in Containers :
        /\ ~objs[c].live
        /\ c = 2 => objs[1].live
        /\ \E i \in HeapImpls, flagNames \in HeapLists :
              Created(c, New(i, flagNames), "new")

\* b = X.fromJSON(a.toJSON())
HFromJSON ==
    /\ 1 \in Using("toJSON")
    /\ ~objs[2].live
    /\ \E i \in HeapImpls :
          /\ HasMethod(i, "fromJSON")
          /\ Created(2, fromJSON(i, JString(toJSON(View(heap, objs[1])))),
                     "fromJSON")

HSetFlag ==
    \E c \in Using("setFlag"), name \in HeapNames, v \in BOOLEAN :
        Commit(c, setFlag(View(heap, objs[c]), name, v).self)

HToggleFlag ==
    \E c \in Using("toggleFlag"), name \in HeapNames :
        Commit(c, ToggleOne(View(heap, objs[c]), name).self)

HPropertyWrite ==
    \E c \in Using("property"), name \in HeapNames, v \in BOOLEAN :
        Commit(c, PropertySet(View(heap, objs[c]), name.s, v))

HSetFlags ==
    \E c \in Using("setFlags"), name \in HeapNames, v \in BOOLEAN :
        Commit(c, setFlags(View(heap, objs[c]),
                           <<[k |-> name, v |-> v]>>).self)

HToggleFlags ==
    \E c \in Using("toggleFlags"), names \in HeapLists :
        Commit(c, ToggleMany(View(heap, objs[c]), names).self)

HFromValue ==
    \E c \in Using("fromValue"), v \in HeapValues :
        Commit(c, fromValue(View(heap, objs[c]), v).self)

\* the caller with the array or object at address a, of instance c
Returned(kind, a, c, op) ==
    [NothingHeld EXCEPT !.kind = kind, !.ref = a, !.op = op, !.on = c]

\* memory once the caller has let go of what it held
Dropped == Collect(heap, objs, NothingHeld)

\* held = c.getFlagNames()
HGetFlagNames ==
    \E c \in Using("getFlagNames") :
        \E r \in {CopyArray(Dropped, objs[c].flagList)} :
            /\ held' = Returned("names", r.at, c, "getFlagNames")
            /\ heap' = r.heap
            /\ UNCHANGED <<objs, cvars>>

\* held = c.getFlags(): the deprecated name of getFlagNames; the first
\* ByteFlags returns [...this.flagList] itself
HGetFlags ==
    \E c \in Using("getFlags") :
        \E r \in {CopyArray(Dropped, objs[c].flagList)} :
            /\ held' = Returned("names", r.at, c, "getFlags")
            /\ heap' = r.heap
            /\ UNCHANGED <<objs, cvars>>

\* the caller changes the array it was given: held.push("x"), held.length = 0
HChangeArray ==
    /\ held.kind = "names"
    /\ \E c \in {Append(heap[held.ref].c, Str(<<"x">>)), <<>>} :
          /\ Len(c) <= HeapWidth + 1
          /\ c # heap[held.ref].c
          /\ heap' = Put(heap, held.ref, Array(c))
    /\ held' = [held EXCEPT !.op = "change", !.on = 0]
    /\ UNCHANGED <<objs, cvars>>

\* held = c.toObject(): reduce fills a new object
HToObject ==
    \E c \in Using("toObject") :
        /\ held' = Returned("object", Alloc(Dropped), c, "toObject")
        /\ heap' = Put(Dropped, Alloc(Dropped),
                       Plain(toObject(View(heap, objs[c]))))
        /\ UNCHANGED <<objs, cvars>>

\* yield [name, this.getFlag(name)] with k for k - 1: the flag of the next name
Yield_NextFlag(self, k) ==
    [name |-> self.flagList[k],
     v |-> getBit(self, k)]

\* yield [name, this.getFlag(name)] for the k-th name of this.flagList
Yield(self, k) ==
    [name |-> self.flagList[k],
     v |-> getFlag(self, self.flagList[k]).ret]

\* for (const pair of c): a traversal starts; the generator has not run yet
HIterate ==
    /\ held.kind = "iterator" => held.done
    /\ \E c \in Using("iterator") :
          /\ held' = [Returned("iterator", Nowhere, c, "iterate") EXCEPT
                         !.iter = c]
          /\ heap' = Dropped
          /\ UNCHANGED <<objs, cvars>>

\* next() of the generator: the loop over this.flagList goes on to the next
\* name and yields, or ends
HIterNext ==
    /\ held.kind = "iterator"
    /\ ~held.done
    /\ LET self == View(heap, objs[held.iter])
           k == Len(held.pairs) + 1
       IN  IF k <= Len(self.flagList)
           THEN held' = [held EXCEPT !.pairs = Append(@, Yield(self, k)),
                                     !.op = "next", !.on = held.iter]
           ELSE held' = [held EXCEPT !.done = TRUE, !.op = "next",
                                     !.on = held.iter]
    /\ UNCHANGED <<heap, objs, cvars>>

NextHeap ==
    \/ HConstruct
    \/ HFromJSON
    \/ HSetFlag
    \/ HToggleFlag
    \/ HPropertyWrite
    \/ HSetFlags
    \/ HToggleFlags
    \/ HFromValue
    \/ HGetFlagNames
    \/ HGetFlags
    \/ HChangeArray
    \/ HToObject
    \/ HIterate
    \/ HIterNext

SpecHeap == Init /\ [][NextHeap]_vars

\* ------------------------------------------------------------ two classes
\* A caller that builds a standalone ByteFlags (instance 1) and a ByteFlags
\* derived from BaseFlags (instance 2) from one name list and then makes
\* every call on both, with the same arguments.
Twins == <<"ByteFlagsStandalone", "ByteFlags">>

\* both calls returned or threw: instance 1 is left as ra.self, instance 2
\* as rb.self
Both(ra, rb, op) ==
    LET wa == Written(heap, objs[1], ra.self)
        wb == Written(wa.heap, objs[2], rb.self)
    IN  /\ objs' = [objs EXCEPT ![1] = wa.obj, ![2] = wb.obj]
        /\ heap' = wb.heap
        /\ held' = [NothingHeld EXCEPT
                       !.op = op,
                       !.raised = <<ra.err # "none", rb.err # "none">>]
        /\ UNCHANGED cvars

\* the registered names the calls on both are made with: the first and the
\* last
TwinNames == {objs[1].born[k] : k \in {1, Len(objs[1].born)}}

TwinsLive == objs[1].live /\ objs[2].live

\* new ByteFlags(...flagNames) of both classes
TConstruct ==
    /\ ~objs[1].live /\ ~objs[2].live
    /\ \E flagNames \in NameLists(Twins[2]) :
          LET ra == New(Twins[1], flagNames)
              rb == New(Twins[2], flagNames)
              fa == NewFields(heap)
              fb == NewFields(fa.heap)
              born(r, f) ==
                  [NoObject EXCEPT !.live = TRUE, !.flagList = f.flagList,
                                   !.flagIndices = f.flagIndices,
                                   !.born = getFlagNames(r.self),
                                   !.by = "new"]
              wa == Written(fb.heap, born(ra, fa), ra.self)
              wb == Written(wa.heap, born(rb, fb), rb.self)
          IN  /\ held' = [NothingHeld EXCEPT
                             !.op = "new",
                             !.raised = <<ra.err # "none", rb.err # "none">>]
              /\ IF ra.err = "none" /\ rb.err = "none"
                 THEN /\ objs' = [objs EXCEPT ![1] = wa.obj, ![2] = wb.obj]
                      /\ heap' = wb.heap
                 ELSE UNCHANGED <<objs, heap>>
              /\ UNCHANGED cvars

TSetFlag ==
    /\ TwinsLive
    /\ \E name \in TwinNames \cup {Missing}, v \in BOOLEAN :
          Both(setFlag(Held(1), name, v), setFlag(Held(2), name, v), "setFlag")

TToggleFlag ==
    /\ TwinsLive
    /\ \E name \in TwinNames \cup {Missing} :
          Both(ToggleOne(Held(1), name), ToggleOne(Held(2), name),
               "toggleFlag")

TSetFlags ==
    /\ TwinsLive
    /\ \E flags \in SeqsUpTo([k : TwinNames \cup {Missing}, v : BOOLEAN],
                             MaxArgs) :
          /\ \A a, b \in 1..Len(flags) : a # b => flags[a].k # flags[b].k
          /\ Both(setFlags(Held(1), flags), setFlags(Held(2), flags),
                  "setFlags")

\* toggleFlags with registered names
TToggleFlags ==
    /\ TwinsLive
    /\ \E names \in SeqsUpTo(TwinNames, MaxArgs) :
          Both(ToggleMany(Held(1), names), ToggleMany(Held(2), names),
               "toggleFlags")

TFromByte ==
    /\ TwinsLive
    /\ \E b \in Values(Twins[2]) :
          Both(fromValue(Held(1), b), fromValue(Held(2), b), "fromByte")

NextTwins ==
    \/ TConstruct
    \/ TSetFlag
    \/ TToggleFlag
    \/ TSetFlags
    \/ TToggleFlags
    \/ TFromByte

SpecTwins == Init /\ [][NextTwins]_vars

\* ------------------------------------------------------------ members
\* Flag names that are also members of the instance. addFlag defines the
\* accessor of a name as an own property of the instance: it replaces the
\* field of that name and hides the method of that name, for the class's own
\* code as for the caller. The operators this_m are the class's methods with
\* every this.m read through the instance's own properties; self.accessors
\* tells which keys are accessors, the fields of self are the data the
\* remaining fields hold.
MemberKey ==
    [value |-> <<"v", "a", "l", "u", "e">>,
     nextIndex |-> <<"n", "e", "x", "t", "I", "n", "d", "e", "x">>,
     flagList |-> <<"f", "l", "a", "g", "L", "i", "s", "t">>,
     flagIndices |-> <<"f", "l", "a", "g", "I", "n", "d", "i", "c", "e", "s">>,
     MAX_FLAGS |-> <<"M", "A", "X", "_", "F", "L", "A", "G", "S">>,
     MAX_VALUE |-> <<"M", "A", "X", "_", "V", "A", "L", "U", "E">>,
     addFlag |-> <<"a", "d", "d", "F", "l", "a", "g">>,
     getBit |-> <<"g", "e", "t", "B", "i", "t">>,
     setBit |-> <<"s", "e", "t", "B", "i", "t">>,
     hasFlag |-> <<"h", "a", "s", "F", "l", "a", "g">>,
     getFlag |-> <<"g", "e", "t", "F", "l", "a", "g">>,
     setFlag |-> <<"s", "e", "t", "F", "l", "a", "g">>,
     toValue |-> <<"t", "o", "V", "a", "l", "u", "e">>,
     getFlagNames |-> <<"g", "e", "t", "F", "l", "a", "g", "N", "a", "m", "e", "s">>,
     toObject |-> <<"t", "o", "O", "b", "j", "e", "c", "t">>]

\* the own property m of the instance is an accessor addFlag defined
Shadowed(self, m) == MemberKey[m] \in DOMAIN self.accessors

\* this.getBit(position). When getBit is an accessor, reading this.getBit runs
\* its getter, which reads this.getBit; when value is one, this.value runs a
\* getter that calls getBit, which reads this.value: the stack overflows.
this_getBit(self, position) ==
    IF Shadowed(self, "getBit") \/ Shadowed(self, "value")
    THEN [err |-> "RangeError", ret |-> FALSE]
    ELSE [err |-> "none", ret |-> getBit(self, position)]

\* what using this.m as the Map, the array or the method the class declared
\* throws: nothing, or, when m is an accessor, the failure of its getter or
\* the TypeError for the boolean it returns (not a function, not iterable)
Unusable(self, m) ==
    IF ~Shadowed(self, m) THEN "none"
    ELSE IF this_getBit(self, self.accessors[MemberKey[m]]).err # "none"
    THEN "RangeError"
    ELSE "TypeError"

\* this.setBit(position, v)
this_setBit(self, position, v) ==
    IF Unusable(self, "setBit") # "none"
    THEN Throw(self, Unusable(self, "setBit"))
    ELSE IF Shadowed(self, "value") THEN Throw(self, "RangeError")
    ELSE Ok(setBit(self, position, v))

\* this.nextIndex and this.MAX_FLAGS as operands of >= and ++: the number the
\* field holds ({} while undefined), or the accessor's boolean as 0 or 1
ToNumber(self, m) ==
    IF ~Shadowed(self, m) THEN [err |-> "none", n |-> self[m]]
    ELSE LET bit == this_getBit(self, self.accessors[MemberKey[m]])
         IN  [err |-> bit.err, n |-> IF bit.ret THEN 1 ELSE 0]

\* this.addFlag(name) as the constructor's loop calls it
this_addFlag(self, name) ==
    LET index == ToNumber(self, "nextIndex")
        most == IF Shadowed(self, "MAX_FLAGS")
                THEN {ToNumber(self, "MAX_FLAGS").n}
                ELSE self.MAX_FLAGS
        idx == index.n
        bumped == IF Shadowed(self, "nextIndex")
                  THEN this_setBit(self, self.accessors[MemberKey.nextIndex],
                                   TRUE)
                  ELSE Ok([self EXCEPT !.nextIndex = idx + 1])
    IN  IF Unusable(self, "addFlag") # "none"
        THEN Throw(self, Unusable(self, "addFlag"))
        ELSE IF index.err # "none" THEN Throw(self, index.err)
        ELSE IF \E m \in most : idx >= m THEN Throw(self, "CannotAddMore")
        ELSE IF name.t # "string" \/ Trim(name.s) = <<>>
        THEN Throw(self, "NonEmptyString")
        ELSE IF Unusable(self, "flagList") # "none"
        THEN Throw(self, Unusable(self, "flagList"))
        ELSE IF Includes(self.flagList, name) THEN Throw(self, "Duplicate")
        ELSE IF bumped.err # "none" THEN bumped
        ELSE IF Unusable(self, "flagIndices") # "none"
        THEN Throw(self, Unusable(self, "flagIndices"))
        ELSE Ok([bumped.self EXCEPT !.flagList = Append(@, name),
                                    !.flagIndices = MapSet(@, name, idx),
                                    !.accessors = MapSet(@, name.s, idx)])

RECURSIVE this_AddFlags(_, _)
this_AddFlags(r, flagNames) ==
    IF r.err # "none" \/ flagNames = <<>> THEN r
    ELSE this_AddFlags(this_addFlag(r.self, Head(flagNames)), Tail(flagNames))

\* How the build sets a class field: by defining the property (a TypeError
\* when the name is an accessor already, which is not configurable) or by
\* assigning to it (the accessor's setter runs). The repository does not fix
\* the build, so a constructor may do either.
Builds == {"define", "assign"}

\* the field initialiser m = x of the subclass, run when super() has returned
FieldInit(r, m, x, build) ==
    IF r.err # "none" THEN r
    ELSE IF ~Shadowed(r.self, m) THEN Ok([r.self EXCEPT ![m] = {x}])
    ELSE IF build = "define" THEN Throw(r.self, "TypeError")
    ELSE this_setBit(r.self, r.self.accessors[MemberKey[m]], TRUE)

\* new ByteFlags(...flagNames) and the like
this_New(i, flagNames, build) ==
    IF Len(flagNames) > StaticMaxFlags(i)
    THEN Throw(Fields(i), "CannotHaveMore")
    ELSE IF Len(flagNames) = 0 THEN Throw(Fields(i), "AtLeastOne")
    ELSE FieldInit(FieldInit(this_AddFlags(Ok(Fields(i)), flagNames),
                             "MAX_FLAGS", StaticMaxFlags(i), build),
                   "MAX_VALUE", StaticMaxValue(i), build)

\* this.hasFlag(name)
this_hasFlag(self, name) ==
    IF Unusable(self, "hasFlag") # "none"
    THEN [err |-> Unusable(self, "hasFlag"), ret |-> FALSE]
    ELSE IF Unusable(self, "flagIndices") # "none"
    THEN [err |-> Unusable(self, "flagIndices"), ret |-> FALSE]
    ELSE [err |-> "none", ret |-> hasFlag(self, name)]

\* this.getFlag(name)
this_getFlag(self, name) ==
    LET has == this_hasFlag(self, name)
    IN  IF Unusable(self, "getFlag") # "none"
        THEN [err |-> Unusable(self, "getFlag"), ret |-> FALSE]
        ELSE IF has.err # "none" THEN has
        ELSE IF ~has.ret THEN [err |-> "DoesNotExist", ret |-> FALSE]
        ELSE this_getBit(self, self.flagIndices[name])

\* this.setFlag(name, v)
this_setFlag(self, name, v) ==
    LET has == this_hasFlag(self, name)
    IN  IF Unusable(self, "setFlag") # "none"
        THEN Throw(self, Unusable(self, "setFlag"))
        ELSE IF has.err # "none" THEN Throw(self, has.err)
        ELSE IF ~has.ret THEN Throw(self, "DoesNotExist")
        ELSE this_setBit(self, self.flagIndices[name], v)

\* this.toValue()
this_toValue(self) ==
    IF Unusable(self, "toValue") # "none"
    THEN [err |-> Unusable(self, "toValue"), ret |-> Zero]
    ELSE IF Shadowed(self, "value") THEN [err |-> "RangeError", ret |-> Zero]
    ELSE [err |-> "none", ret |-> self.value]

\* this.getFlagNames()
this_getFlagNames(self) ==
    IF Unusable(self, "getFlagNames") # "none"
    THEN [err |-> Unusable(self, "getFlagNames"), ret |-> <<>>]
    ELSE IF Unusable(self, "flagList") # "none"
    THEN [err |-> Unusable(self, "flagList"), ret |-> <<>>]
    ELSE [err |-> "none", ret |-> self.flagList]

\* this.toObject(): reduce calls this.getFlag(name) for each name
this_toObject(self) ==
    LET failed == {k \in 1..Len(self.flagList) :
                      this_getFlag(self, self.flagList[k]).err # "none"}
        first == CHOOSE k \in failed : \A j \in failed : k <= j
    IN  IF Unusable(self, "toObject") # "none"
        THEN [err |-> Unusable(self, "toObject"), ret |-> EmptyObject]
        ELSE IF Unusable(self, "flagList") # "none"
        THEN [err |-> Unusable(self, "flagList"), ret |-> EmptyObject]
        ELSE IF failed # {}
        THEN [err |-> this_getFlag(self, self.flagList[first]).err,
              ret |-> EmptyObject]
        ELSE [err |-> "none", ret |-> toObject(self)]

\* name lists with a name of a member: a field alone and followed by another
\* name, a method, and a list without such a name
MemberLists ==
    {<<Str(MemberKey[m])>> :
        m \in {"value", "nextIndex", "flagList", "flagIndices", "MAX_FLAGS",
               "MAX_VALUE", "getFlag", "toValue", "getBit"}}
      \cup {<<Str(MemberKey[m]), F(0)>> :
              m \in {"nextIndex", "flagList", "MAX_FLAGS", "addFlag"}}
      \cup {Gen(2)}

MConstruct ==
    /\ ~live /\ Idle
    /\ UNCHANGED hvars
    /\ \E i \in Derived, flagNames \in MemberLists, build \in Builds :
          \E r \in {this_New(i, flagNames, build)} :
              /\ live' = (r.err = "none")
              /\ Store(IF r.err = "none" THEN r.self ELSE NoInstance)
              /\ last' = [Call("new") EXCEPT !.err = r.err,
                            !.names = flagNames,
                            !.pre = [NoInstance EXCEPT !.impl = i]]

MGetFlag ==
    /\ live /\ Idle
    /\ UNCHANGED hvars
    /\ \E name \in OpNames :
          \E r \in {this_getFlag(This, name)} :
              last' = [Call("getFlag") EXCEPT !.names = <<name>>,
                         !.err = r.err, !.ret = r.ret]
    /\ UNCHANGED <<live, impl, value, nextIndex, flagList, flagIndices,
                   accessors, MAX_FLAGS, MAX_VALUE>>

MSetFlag ==
    /\ live /\ Idle
    /\ UNCHANGED hvars
    /\ \E name \in OpNames, v \in BOOLEAN :
          \E r \in {this_setFlag(This, name, v)} :
              /\ Store(r.self)
              /\ last' = [Call("setFlag") EXCEPT !.names = <<name>>, !.v = v,
                            !.err = r.err]
              /\ UNCHANGED live

MToValue ==
    /\ live /\ Idle
    /\ UNCHANGED hvars
    /\ \E r \in {this_toValue(This)} :
          last' = [Call("toValue") EXCEPT !.err = r.err, !.num = r.ret]
    /\ UNCHANGED <<live, impl, value, nextIndex, flagList, flagIndices,
                   accessors, MAX_FLAGS, MAX_VALUE>>

\* the array returned is kept in last.names
MGetFlagNames ==
    /\ live /\ Idle
    /\ UNCHANGED hvars
    /\ \E r \in {this_getFlagNames(This)} :
          last' = [Call("getFlagNames") EXCEPT !.err = r.err, !.names = r.ret]
    /\ UNCHANGED <<live, impl, value, nextIndex, flagList, flagIndices,
                   accessors, MAX_FLAGS, MAX_VALUE>>

\* the object returned is kept in last.flags
MToObject ==
    /\ live /\ Idle
    /\ UNCHANGED hvars
    /\ \E r \in {this_toObject(This)} :
          last' = [Call("toObject") EXCEPT !.err = r.err, !.flags = r.ret]
    /\ UNCHANGED <<live, impl, value, nextIndex, flagList, flagIndices,
                   accessors, MAX_FLAGS, MAX_VALUE>>

NextMembers ==
    \/ MConstruct
    \/ MGetFlag
    \/ MSetFlag
    \/ MToValue
    \/ MGetFlagNames
    \/ MToObject
    \/ Return

SpecMembers == Init /\ [][NextMembers]_vars

\* ------------------------------------------------------------ properties
\* what the specification says of a name list, stated without the constructors
Capacity(i) == StaticMaxFlags(i)

Registered(self, name) == Includes(self.flagList, name)

Blank(name) == name.t # "string" \/ \A k \in 1..Len(name.s) : name.s[k] \in WhiteSpace

HasDuplicate(names) ==
    \E a, b \in 1..Len(names) : a # b /\ names[a] = names[b]

ValidList(names, i) ==
    /\ Len(names) \in 1..Capacity(i)
    /\ \A k \in 1..Len(names) : ~Blank(names[k])
    /\ ~HasDuplicate(names)

HasUnregistered(self, names) ==
    \E k \in 1..Len(names) : ~Registered(self, names[k])

\* C1: in every reachable state the integer toValue() returns is an integer
\* with 0 <= value <= 2^capacity - 1, never negative.
C1_ValueInRange ==
    live => /\ IsInteger(toValue(This))
            /\ ~Less(toValue(This), Zero)
            /\ ~Less(StaticMaxValue(impl), toValue(This))

\* C2: in every reachable state, fromValue(toValue()) on a freshly constructed
\* container with the same names succeeds and gives an equal toObject().
C2_IntegerRoundTrip ==
    live =>
        LET fresh == New(impl, getFlagNames(This))
            loaded == fromValue(fresh.self, toValue(This))
        IN  /\ fresh.err = "none"
            /\ loaded.err = "none"
            /\ toObject(loaded.self) = toObject(This)

\* C3: toggleFlags raises when a name of its list is not registered; it does
\* not silently ignore the name.
C3_ToggleFlagsRaises ==
    (last.op = "toggleFlags" /\ HasUnregistered(last.pre, last.names))
        => last.err = "DoesNotExist"

\* C4: all, anyOf and noneOf raise whenever their list holds a name that is
\* not registered, wherever it stands and whatever the flags before it are;
\* otherwise all is true iff every named flag is true, anyOf iff at least one
\* is, and noneOf is the negation of anyOf.
C4_GroupQueries ==
    last.op \in {"all", "anyOf", "noneOf"} =>
        IF HasUnregistered(last.pre, last.names)
        THEN last.err = "DoesNotExist"
        ELSE LET bit(k) == getBit(last.pre, last.pre.flagIndices[last.names[k]])
                 every == \A k \in 1..Len(last.names) : bit(k)
                 some == \E k \in 1..Len(last.names) : bit(k)
             IN  /\ last.err = "none"
                 /\ last.ret = CASE last.op = "all" -> every
                                 [] last.op = "anyOf" -> some
                                 [] OTHER -> ~some

\* C5: construction fails, producing no container, for an empty list, a list
\* longer than the capacity, a blank or non-string name, or a duplicate name;
\* the 9-name list the 8-bit variant rejects is accepted by the 16-bit
\* variant, and exactly capacity names are accepted.
C5_ConstructionRejects ==
    last.op = "new" =>
        LET i == last.pre.impl
        IN  /\ ~ValidList(last.names, i) => (last.err # "none" /\ ~live)
            /\ (last.names = Gen(9) /\ Capacity(i) = 8) => last.err # "none"
            /\ (last.names = Gen(9) /\ Capacity(i) = 16) => (last.err = "none" /\ live)
            /\ last.names = Gen(Capacity(i)) => (last.err = "none" /\ live)

C9_ToggleTwice ==
    (last.op = "toggleFlag" /\ last.err = "none") =>
        LET again == ToggleOne(This, last.names[1])
        IN  /\ again.err = "none"
            /\ toValue(again.self) = toValue(last.pre)
            /\ toObject(again.self) = toObject(last.pre)

Bit(n, i) ==
    IF i < 16 THEN (n.lo \div 2 ^ i) % 2 = 1
    ELSE (n.hi \div 2 ^ (i - 16)) % 2 = 1

\* the value the mapping gives to name; name is a key of the mapping
Mapped(flags, name) ==
    LET k == CHOOSE k \in 1..Len(flags) : flags[k].k = name
    IN  flags[k].v

IsKey(flags, name) == \E k \in 1..Len(flags) : flags[k].k = name

\* C11: a call that fails is a hard failure with no partial success: after a
\* failed call, a bulk toggleFlags with an unknown name after registered
\* names included, the stored integer is the same as before the call.
C11_NoPartialSuccess ==
    (last.op # "new" /\ last.err # "none") =>
        toValue(This) = toValue(last.pre)

Largest(i) ==
    CASE Capacity(i) = 8 -> Num(0, 2 ^ 8 - 1)
      [] Capacity(i) = 16 -> Num(0, Limb - 1)
      [] OTHER -> Num(Limb - 1, Limb - 1)

TrueEntries(obj) == Cardinality({k \in 1..Len(obj) : obj[k].v})

\* C15: count() equals the number of true entries of toObject(): it counts
\* the bits at the registered positions only, also when fromValue loaded an
\* integer with higher bits set.
C15_CountIsTrueEntries ==
    last.op = "count" =>
        /\ last.num = Num(0, TrueEntries(toObject(This)))
        /\ last.num.lo <= Len(flagList)

C17_NoneIsAllFalse ==
    /\ last.op = "none" =>
          last.ret = (\A k \in 1..Len(flagList) : ~getFlag(This, flagList[k]).ret)
    /\ last.op = "any" =>
          last.ret = (\E k \in 1..Len(flagList) : getFlag(This, flagList[k]).ret)

\* the same keys with the same values, in whatever order
SameMapping(a, b) ==
    {<<a[k].k, a[k].v>> : k \in 1..Len(a)} = {<<b[k].k, b[k].v>> : k \in 1..Len(b)}

\* C18: JSON round trip: for every container in every reachable state,
\* fromJSON(toJSON()) returns a new container whose toObject() equals the
\* container's toObject().
C18_JsonRoundTrip ==
    last.op = "toJSON" =>
        LET restored == fromJSON(impl, last.json)
        IN  /\ restored.err = "none"
            /\ SameMapping(toObject(restored.self), toObject(This))

\* the value fromJSON works on: the argument, or what it parses to
Given(json) == IF json.t = "string" THEN JSONParse(json.s) ELSE [ok |-> TRUE, v |-> json]

IsMapping(json) == Given(json).ok /\ Given(json).v.t = "object"

KeyNames(json) ==
    [k \in 1..Len(Given(json).v.entries) |-> Str(Given(json).v.entries[k].k)]

C29_JsonKeepsOrder ==
    (last.op = "toJSON" /\ last.err = "none") =>
        LET restored == fromJSON(impl, last.json)
        IN  /\ restored.err = "none"
            /\ getFlagNames(restored.self) = getFlagNames(This)
            /\ (\A i \in Len(flagList)..31 : ~Bit(value, i))
                  => toValue(restored.self) = toValue(This)

\* C25: every flag container offers reset(), after which every registered
\* flag is false, and setAll(), after which every registered flag is true.
C25_ResetAndSetAll ==
    /\ last.op = "reset" =>
          /\ last.err = "none"
          /\ \A k \in 1..Len(flagList) : ~getFlag(This, flagList[k]).ret
    /\ last.op = "setAll" =>
          /\ last.err = "none"
          /\ \A k \in 1..Len(flagList) : getFlag(This, flagList[k]).ret

\* C22: the registry is fixed at construction: after any sequence of calls
\* getFlagNames() and getFlags() return the names the instance was built
\* with, in that order, and hasFlag answers as it did; changing an array they
\* returned changes nothing a later call returns.
C22_RegistryFixed ==
    \A c \in Containers :
        objs[c].live =>
            /\ getFlagNames(Held(c)) = objs[c].born
            /\ \A name \in HeapNames \cup {Str(<<"x">>)} :
                  hasFlag(Held(c), name) <=>
                      \E k \in 1..Len(objs[c].born) : objs[c].born[k] = name
            /\ (held.on = c /\ held.op \in {"getFlagNames", "getFlags"}) =>
                  heap[held.ref] = Array(objs[c].born)

C22_Witness ==
    /\ held.kind = "names"
    /\ held.op = "change"
    /\ heap[held.ref].c = Append(Gen(2), Str(<<"x">>))
    /\ objs[1].live
    /\ objs[1].impl = "LongFlags"
    /\ objs[1].born = Gen(2)
    /\ objs[1].value = Num(0, 2)

\* C23: two instances are independent: a call on one, its construction
\* included, leaves the stored integer and the registry of the other as they
\* were, also when both were built from the same names or one was returned
\* by fromJSON of the other's toJSON().
C23_Independent ==
    [][\A c \in Containers :
          (objs[c].live /\ held'.on # c) =>
              /\ objs'[c] = objs[c]
              /\ View(heap', objs'[c]) = View(heap, objs[c])]_vars

C23_Witness ==
    /\ held.op = "write"
    /\ held.on = 2
    /\ objs[2].by = "fromJSON"
    /\ objs[1].live
    /\ objs[2].born = objs[1].born
    /\ Len(objs[1].born) = 2
    /\ objs[1].value = Num(0, 1)
    /\ objs[2].value = Num(0, 2)

\* the object toObject() returns for the instance o
Snapshot(o) ==
    [k \in 1..Len(o.born) |-> [k |-> o.born[k].s, v |-> Bit(o.value, k - 1)]]

C30_MembersUndisturbed ==
    /\ (last.op = "new" /\ ValidList(last.names, last.pre.impl)) =>
          /\ last.err = "none"
          /\ live
          /\ value = Zero
          /\ flagList = last.names
          /\ \A k \in 1..Len(last.names) : flagIndices[last.names[k]] = k - 1
    /\ (last.op = "getFlag" /\ Registered(last.pre, last.names[1])) =>
          /\ last.err = "none"
          /\ last.ret = Bit(value, flagIndices[last.names[1]])
    /\ (last.op = "setFlag" /\ Registered(last.pre, last.names[1])) =>
          /\ last.err = "none"
          /\ Bit(value, flagIndices[last.names[1]]) = last.v
    /\ last.op = "toValue" => (last.err = "none" /\ last.num = value)
    /\ last.op = "getFlagNames" => (last.err = "none" /\ last.names = flagList)
    /\ last.op = "toObject" =>
          /\ last.err = "none"
          /\ \A k \in 1..Len(flagList) :
                /\ IsKey(last.flags, flagList[k].s)
                /\ Mapped(last.flags, flagList[k].s) = Bit(value, k - 1)

====
